---- MODULE Spec2Model ----
(***************************************************************************)
(* Model of rhythmic_gymnastics_form_app.js: an Express server with three  *)
(* request handlers (POST /submit, POST /download-docx, GET                *)
(* /download-excel) over one shared spreadsheet file (EXCEL_PATH) and one  *)
(* shared mail transport.                                                  *)
(*                                                                         *)
(* Strings are sequences of characters, so that String.prototype.trim and  *)
(* the two regular-expression replacements of fileSafe are computed, not   *)
(* assumed.  Fixed Cyrillic literals of the source are written as one      *)
(* transliterated token each (they contain no whitespace-only or unsafe    *)
(* prefix that any of the modelled functions would split).                 *)
(*                                                                         *)
(* The libraries (exceljs, docx, nodemailer, dayjs) are modelled by their  *)
(* documented contract: a worksheet is the sequence of its data rows, a    *)
(* row added from a keyed object fills the columns of those keys, a        *)
(* written file holds the workbook that was written, and every awaited     *)
(* library call may reject.                                                *)
(***************************************************************************)
EXTENDS Naturals, Sequences, FiniteSets, TLC

VARIABLES
    logExists,   \* fs.existsSync(EXCEL_PATH)
    logRows,     \* data rows of sheet 'Submissions' in the file at EXCEL_PATH
    outbox,      \* mails the transport accepted, in order
    now,         \* the wall clock as dayjs() last read it
    nreq,        \* number of requests accepted so far
    pc,          \* per request slot: the await point the handler is at
    route,       \* per request slot: the handler that runs
    body,        \* per request slot: req.body
    payload,     \* per request slot: const payload
    wb,          \* per request slot: rows of the in-memory workbook wb
    ts,          \* per request slot: const ts of appendToExcel
    buffer,      \* per request slot: const buffer (the document)
    res,         \* per request slot: the response sent, "none" before
    steps,       \* history: the pipeline steps the request ran, with outcome
    mailAttempts,\* history: transporter.sendMail calls of the request
    logAtCall,   \* history: logRows when the request entered appendToExcel
    overlap,     \* history: another request touched the log during the call
    fsName,      \* argument of a fileSafe call
    fsSafe       \* its result

vars == <<logExists, logRows, outbox, now, nreq, pc, route, body, payload, wb,
          ts, buffer, res, steps, mailAttempts, logAtCall, overlap, fsName, fsSafe>>

reqVars == <<pc, route, body, payload, wb, ts, buffer, res, steps,
             mailAttempts, logAtCall, overlap>>

(***************************************************************************)
(* Bounds of the model.                                                    *)
(***************************************************************************)
MaxClock == 1
MaxRequests == 2
MaxNameLen == 3

\* request slots: the requests the server has in flight at one time
Procs == {1, 2}

(***************************************************************************)
(* Characters and strings.                                                 *)
(***************************************************************************)
\* the character class [\\/:*?"<>|\n\r] of fileSafe
UnsafeChars == {"\\", "/", ":", "*", "?", "\"", "<", ">", "|", "\n", "\r"}

\* the class \s, which is also what trim() strips
WhiteSpace == {" ", "\t", "\n", "\r", "\f"}

Digits == <<"0", "1", "2", "3", "4", "5", "6", "7", "8", "9">>

RECURSIVE NumToStr(_)
NumToStr(n) ==
    IF n < 10 THEN <<Digits[n + 1]>>
    ELSE Append(NumToStr(n \div 10), Digits[(n % 10) + 1])

RECURSIVE TrimStart(_)
TrimStart(s) ==
    IF s # <<>> /\ Head(s) \in WhiteSpace THEN TrimStart(Tail(s)) ELSE s

RECURSIVE TrimEnd(_)
TrimEnd(s) ==
    IF s # <<>> /\ s[Len(s)] \in WhiteSpace
    THEN TrimEnd(SubSeq(s, 1, Len(s) - 1))
    ELSE s

Trim(s) == TrimEnd(TrimStart(s))

RECURSIVE DropWhile(_, _)
DropWhile(s, class) ==
    IF s # <<>> /\ Head(s) \in class THEN DropWhile(Tail(s), class) ELSE s

\* s.replace(/[class]+/g, by): every maximal run of class becomes one `by`
RECURSIVE ReplaceRuns(_, _, _)
ReplaceRuns(s, class, by) ==
    IF s = <<>> THEN <<>>
    ELSE IF Head(s) \in class
         THEN <<by>> \o ReplaceRuns(DropWhile(s, class), class, by)
         ELSE <<Head(s)>> \o ReplaceRuns(Tail(s), class, by)

fileSafe_NoTrim(name) ==
    ReplaceRuns(ReplaceRuns(name, UnsafeChars, "_"), WhiteSpace, " ")

fileSafe(name) ==
    Trim(ReplaceRuns(ReplaceRuns(name, UnsafeChars, "_"), WhiteSpace, " "))

(***************************************************************************)
(* JSON values of a request body.                                          *)
(***************************************************************************)
Undef == [t |-> "undefined"]
Null == [t |-> "null"]
S(s) == [t |-> "string", s |-> s]
N(n) == [t |-> "number", n |-> n]
Arr(a) == [t |-> "array", a |-> a]
Obj(o) == [t |-> "object", o |-> o]

\* String(v) of a primitive
ToStr(v) == IF v.t = "string" THEN v.s ELSE NumToStr(v.n)

\* const pick = (v) => (v == null ? '' : String(v).trim())
pick(v) == IF v.t \in {"undefined", "null"} THEN <<>> ELSE Trim(ToStr(v))

\* p.name and the like: a property read; undefined off a primitive or when
\* the object has no such property
Get(p, key) == IF p.t = "object" /\ key \in DOMAIN p.o THEN p.o[key] ELSE Undef

\* dayjs().format('DD.MM.YYYY'); the clock counts half days of January 2026
FormatDate(t) ==
    <<"0", Digits[(t \div 2) + 2], ".", "0", "1", ".", "2", "0", "2", "6">>

\* dayjs().format('YYYY-MM-DD HH:mm:ss')
FormatTs(t) ==
    <<"2", "0", "2", "6", "-", "0", "1", "-", "0", Digits[(t \div 2) + 2], " ">>
    \o (IF t % 2 = 0 THEN <<"0", "0">> ELSE <<"1", "2">>)
    \o <<":", "0", "0", ":", "0", "0">>

(***************************************************************************)
(* sanitizeSubmission.                                                     *)
(***************************************************************************)
\* a || b on strings: the empty string is falsy
Or(a, b) == IF a # <<>> THEN a ELSE b

\* p.name of a null element raises TypeError inside b.participants.map
sanitizeThrows(b) ==
    /\ b.participants.t = "array"
    /\ \E i \in 1..Len(b.participants.a) :
          b.participants.a[i].t \in {"null", "undefined"}

sanitizeParticipant_InputIdx(p, i) ==
    [idx |-> IF Get(p, "idx").t = "number" THEN Get(p, "idx").n ELSE i + 1,
     name |-> pick(Get(p, "name")),
     birthYear |-> pick(Get(p, "birthYear")),
     hasRank |-> pick(Get(p, "hasRank")),
     performingRank |-> pick(Get(p, "performingRank")),
     medicalVisa |-> pick(Get(p, "medicalVisa"))]

\* the callback of b.participants.map; i is the 0-based array index
sanitizeParticipant(p, i) ==
    [idx |-> i + 1,
     name |-> pick(Get(p, "name")),
     birthYear |-> pick(Get(p, "birthYear")),
     hasRank |-> pick(Get(p, "hasRank")),
     performingRank |-> pick(Get(p, "performingRank")),
     medicalVisa |-> pick(Get(p, "medicalVisa"))]

\* the value returned when nothing throws; t is the clock at the call
sanitizeSubmission(b, t) ==
    [date |-> Or(pick(b.date), FormatDate(t)),
     city |-> pick(b.city),
     club |-> pick(b.club),
     contacts |-> pick(b.contacts),
     coach |-> pick(b.coach),
     judge |-> pick(b.judge),
     judgeCategory |-> pick(b.judgeCategory),
     participants |->
         IF b.participants.t = "array"
         THEN [k \in 1..Len(b.participants.a) |->
                   sanitizeParticipant(b.participants.a[k], k - 1)]
         ELSE <<>>]

(***************************************************************************)
(* The worksheet: ensureWorkbook's columns and appendToExcel's rows.       *)
(***************************************************************************)
\* an empty cell of a row
Blank == [t |-> "blank"]

SubmissionKeys ==
    {"ts", "date", "city", "club", "contacts", "coach", "judge", "judgeCategory"}

ParticipantKeys == {"p_idx", "p_name", "p_birth", "p_has", "p_perf", "p_med"}

\* the keys of ws.columns
ColumnKeys == SubmissionKeys \cup ParticipantKeys

\* ws.addRow(values): the cells of the keys given are set, the others empty
addRow(values) ==
    [k \in ColumnKeys |-> IF k \in DOMAIN values THEN values[k] ELSE Blank]

\* the eight submission-level properties of both addRow arguments
submissionCells(pl, stamp) ==
    [ts |-> S(stamp), date |-> S(pl.date), city |-> S(pl.city),
     club |-> S(pl.club), contacts |-> S(pl.contacts), coach |-> S(pl.coach),
     judge |-> S(pl.judge), judgeCategory |-> S(pl.judgeCategory)]

participantCells(p) ==
    [p_idx |-> N(p.idx), p_name |-> S(p.name), p_birth |-> S(p.birthYear),
     p_has |-> S(p.hasRank), p_perf |-> S(p.performingRank),
     p_med |-> S(p.medicalVisa)]

newRows_SkipEmpty(pl, stamp) ==
    [k \in 1..Len(pl.participants) |->
        addRow(submissionCells(pl, stamp) @@ participantCells(pl.participants[k]))]

newRows_Reversed(pl, stamp) ==
    IF Len(pl.participants) = 0
    THEN <<addRow(submissionCells(pl, stamp))>>
    ELSE [k \in 1..Len(pl.participants) |->
            addRow(submissionCells(pl, stamp)
                   @@ participantCells(
                        pl.participants[Len(pl.participants) + 1 - k]))]

\* the rows the if/else of appendToExcel adds to ws, in order
newRows(pl, stamp) ==
    IF Len(pl.participants) = 0
    THEN <<addRow(submissionCells(pl, stamp))>>
    ELSE [k \in 1..Len(pl.participants) |->
            addRow(submissionCells(pl, stamp)
                   @@ participantCells(pl.participants[k]))]

(***************************************************************************)
(* buildDocx: the visible content of the document.                         *)
(***************************************************************************)
\* new Array(8)
BlankRowCount == 8

\* [a, b].filter(Boolean).join(', ')
joinNonEmpty(a, b) ==
    IF a = <<>> THEN b
    ELSE IF b = <<>> THEN a
    ELSE a \o <<",", " ">> \o b

IsNull(p) == "t" \in DOMAIN p /\ p.t = "null"

\* one body row of the participant table; i is the 0-based map index
participantRow(p, i) ==
    IF IsNull(p)
    THEN <<NumToStr(i + 1), <<>>, <<>>, <<>>, <<>>, <<>>>>
    ELSE <<NumToStr(p.idx), Or(p.name, <<>>), Or(p.birthYear, <<>>),
           Or(p.hasRank, <<>>), Or(p.performingRank, <<>>),
           Or(p.medicalVisa, <<>>)>>

participantTable_NoBlankCanvas(data) ==
    [k \in 1..Len(data.participants) |->
        participantRow(data.participants[k], k - 1)]

\* the body rows of the participant table
participantTable(data) ==
    LET src == IF Len(data.participants) > 0
               THEN data.participants
               ELSE [k \in 1..BlankRowCount |-> Null]
    IN  [k \in 1..Len(src) |-> participantRow(src[k], k - 1)]

buildDocx(data) ==
    [dateLine |-> <<"g. Mytishchi, ">> \o data.date,
     info |-> <<Or(data.club, <<>>), Or(data.city, <<>>),
                Or(data.contacts, <<>>), Or(data.coach, <<>>),
                joinNonEmpty(data.judge, data.judgeCategory)>>,
     rows |-> participantTable(data)]

(***************************************************************************)
(* emailDocx: the message handed to transporter.sendMail.                  *)
(***************************************************************************)
\* `Zayavka_${safeName}.docx`
attachmentName(club) ==
    <<"Zayavka_">> \o fileSafe(Or(club, <<"Zayavka">>)) \o <<".docx">>

mailMessage(pl, buf) ==
    [to |-> "WORK_EMAIL",
     subject |-> <<"Zayavka: ">> \o Or(pl.club, <<"bez nazvaniya">>),
     text |-> <<Or(pl.club, <<"-">>), Or(pl.city, <<"-">>),
                Or(pl.coach, <<"-">>), Or(pl.contacts, <<"-">>),
                Or(joinNonEmpty(pl.judge, pl.judgeCategory), <<"-">>),
                NumToStr(Len(pl.participants))>>,
     filename |-> attachmentName(pl.club),
     content |-> buf]

(***************************************************************************)
(* Request bodies the clients send (what bodyParser.json hands over).      *)
(***************************************************************************)
EmptyBody ==
    [date |-> Undef, city |-> Undef, club |-> Undef, contacts |-> Undef,
     coach |-> Undef, judge |-> Undef, judgeCategory |-> Undef,
     participants |-> Undef]

\* carries an idx of its own, a padded name, a number, a null and a blank;
\* performingRank is missing
PartA ==
    Obj([idx |-> N(7), name |-> S(<<" ", "x", " ">>), birthYear |-> N(12),
         hasRank |-> Null, medicalVisa |-> S(<<" ">>)])

\* two participants, the second not an object
BodyTwo ==
    [date |-> S(<<"d">>), city |-> N(5), club |-> S(<<" ", "A", "/", "B">>),
     contacts |-> S(<<" ", " ">>), coach |-> S(<<"c", " ">>),
     judge |-> S(<<"j">>), judgeCategory |-> S(<<"1">>),
     participants |-> Arr(<<PartA, N(5)>>)]

\* participants and date are missing
BodyNoParticipants == [EmptyBody EXCEPT !.club = S(<<"z">>)]

\* an empty participants array
BodyEmptyArray ==
    [EmptyBody EXCEPT !.date = S(<<"d">>), !.judge = S(<<"j">>),
                      !.participants = Arr(<<>>)]

\* a participants array holding null
BodyNullElement ==
    [EmptyBody EXCEPT !.date = S(<<"d">>), !.participants = Arr(<<PartA, Null>>)]

Bodies == {BodyTwo, BodyNoParticipants, BodyEmptyArray, BodyNullElement}

(***************************************************************************)
(* The handlers.                                                           *)
(***************************************************************************)
Routes == {"/submit", "/download-docx", "/download-excel"}

pipeline_DocxAppends(r) ==
    CASE r = "/submit" -> <<"sanitize", "append", "build", "email">>
      [] r = "/download-docx" -> <<"sanitize", "append", "build">>
      [] r = "/download-excel" -> <<"excel">>

pipeline_EmailFirst(r) ==
    CASE r = "/submit" -> <<"sanitize", "email", "append", "build">>
      [] r = "/download-docx" -> <<"sanitize", "build">>
      [] r = "/download-excel" -> <<"excel">>

pipeline_EmailTwice(r) ==
    CASE r = "/submit" -> <<"sanitize", "append", "build", "email", "email">>
      [] r = "/download-docx" -> <<"sanitize", "build">>
      [] r = "/download-excel" -> <<"excel">>

\* the statements of each handler's try block, in order
pipeline(r) ==
    CASE r = "/submit" -> <<"sanitize", "append", "build", "email">>
      [] r = "/download-docx" -> <<"sanitize", "build">>
      [] r = "/download-excel" -> <<"excel">>

\* what the try block sends when its last statement is reached
okResponse(r, pl, buf) ==
    CASE r = "/submit" -> [status |-> 200, ok |-> TRUE]
      [] r = "/download-docx" ->
           [status |-> 200, filename |-> attachmentName(pl.club), content |-> buf]
      [] r = "/download-excel" -> [status |-> 200, filename |-> "submissions.xlsx"]

failResponse_PartialOk == [status |-> 200, ok |-> TRUE]

\* what the catch block sends
failResponse == [status |-> 500, ok |-> FALSE]

NoResponse == [status |-> 0]

\* the statement after `step` in the handler of r, "done" after the last
after(r, step) ==
    LET seq == pipeline(r)
        i == CHOOSE k \in 1..Len(seq) : seq[k] = step
    IN  IF i < Len(seq) THEN seq[i + 1] ELSE "done"

\* inside appendToExcel or ensureWorkbook, between two awaits
InLog(q) == pc[q] \in {"ensure", "read", "write", "xl_ensure"}

Init ==
    /\ logExists = FALSE
    /\ logRows = <<>>
    /\ outbox = <<>>
    /\ now = 0
    /\ nreq = 0
    /\ pc = [p \in Procs |-> "idle"]
    /\ route = [p \in Procs |-> "/submit"]
    /\ body = [p \in Procs |-> EmptyBody]
    /\ payload = [p \in Procs |-> Undef]
    /\ wb = [p \in Procs |-> <<>>]
    /\ ts = [p \in Procs |-> <<>>]
    /\ buffer = [p \in Procs |-> Undef]
    /\ res = [p \in Procs |-> NoResponse]
    /\ steps = [p \in Procs |-> <<>>]
    /\ mailAttempts = [p \in Procs |-> 0]
    /\ logAtCall = [p \in Procs |-> <<>>]
    /\ overlap = [p \in Procs |-> FALSE]
    /\ fsName = <<>>
    /\ fsSafe = <<>>

\* dayjs(): the time read is not before the time read last
Clock == now' \in now..MaxClock

\* Request p, running the handler of r with `ran` behind it, ends pipeline
\* statement `step`, resolved (ok) or thrown into the catch, with req.body b,
\* payload pl and buffer buf.  The handler runs on to its next await:
\*  - the next statement being appendToExcel, that is fs.existsSync and the
\*    start of readFile or of ensureWorkbook (no step that gets here changes
\*    the file);
\*  - past the last statement or in the catch, the response is sent, and
\*    req.body, payload and buffer go out of scope.
Finish(p, r, ran, step, ok, b, pl, buf) ==
    LET nxt == IF ok THEN after(r, step) ELSE "done"
        leaves == nxt = "done"
    IN  /\ steps' = [steps EXCEPT ![p] = Append(ran, [step |-> step, ok |-> ok])]
        /\ pc' = [pc EXCEPT ![p] =
                    IF nxt = "append"
                    THEN (IF logExists THEN "read" ELSE "ensure")
                    ELSE nxt]
        /\ res' = [res EXCEPT ![p] =
                     IF ~ok THEN failResponse
                     ELSE IF leaves THEN okResponse(r, pl, buf)
                     ELSE NoResponse]
        /\ body' = [body EXCEPT ![p] = IF leaves THEN EmptyBody ELSE b]
        /\ payload' = [payload EXCEPT ![p] = IF leaves THEN Undef ELSE pl]
        /\ buffer' = [buffer EXCEPT ![p] = IF leaves THEN Undef ELSE buf]
        /\ logAtCall' = [logAtCall EXCEPT ![p] =
                           IF nxt = "append" THEN logRows
                           ELSE IF leaves THEN <<>> ELSE @]
        /\ overlap' = [q \in Procs |->
                         IF q = p
                         THEN (IF nxt = "append"
                               THEN \E o \in Procs \ {p} : InLog(o)
                               ELSE IF leaves THEN FALSE ELSE overlap[p])
                         ELSE (IF nxt = "append"
                               THEN overlap[q] \/ InLog(q)
                               ELSE overlap[q])]

\* a later statement of the running handler of p ends
Resume(p, step, ok, pl, buf) ==
    Finish(p, route[p], steps[p], step, ok, body[p], pl, buf)

\* express hands a request to a handler; the slots are interchangeable, so a
\* request takes the lowest free one
Accept(p, r) ==
    /\ pc[p] \in {"idle", "done"}
    /\ \A q \in Procs : q < p => pc[q] \notin {"idle", "done"}
    /\ nreq < MaxRequests
    /\ nreq' = nreq + 1
    /\ route' = [route EXCEPT ![p] = r]
    /\ mailAttempts' = [mailAttempts EXCEPT ![p] = 0]

\* a POST handler up to its first await:
\* const payload = sanitizeSubmission(req.body), then what follows it
Post(p, r) ==
    /\ Accept(p, r)
    /\ \E b \in Bodies :
          \* pick(b.date) || dayjs(): the clock is read for a blank date only
          /\ IF pick(b.date) = <<>> THEN Clock ELSE now' = now
          /\ IF sanitizeThrows(b)
             THEN Finish(p, r, <<>>, "sanitize", FALSE, b, Undef, Undef)
             ELSE Finish(p, r, <<>>, "sanitize", TRUE, b,
                         sanitizeSubmission(b, now'), Undef)
    /\ UNCHANGED <<logExists, logRows, outbox, wb, ts, fsName, fsSafe>>

\* app.post('/submit', ...)
Submit(p) == Post(p, "/submit")

\* app.post('/download-docx', ...)
DownloadDocx(p) == Post(p, "/download-docx")

\* app.get('/download-excel', ...) up to its first await:
\* if (!fs.existsSync(EXCEL_PATH)) await ensureWorkbook()
DownloadExcel(p) ==
    /\ Accept(p, "/download-excel")
    /\ IF logExists
       THEN Finish(p, "/download-excel", <<>>, "excel", TRUE, EmptyBody,
                   Undef, Undef)
       ELSE /\ pc' = [pc EXCEPT ![p] = "xl_ensure"]
            /\ steps' = [steps EXCEPT ![p] = <<>>]
            /\ res' = [res EXCEPT ![p] = NoResponse]
            /\ overlap' = [q \in Procs |->
                             IF q = p THEN FALSE ELSE overlap[q] \/ InLog(q)]
            /\ UNCHANGED <<body, payload, buffer, logAtCall>>
    /\ UNCHANGED <<logExists, logRows, outbox, now, wb, ts, fsName, fsSafe>>

\* ensureWorkbook: a new workbook with the header and no rows is written over
\* whatever the path holds; a rejected write leaves the path as it was
EnsureWorkbook(p) ==
    /\ pc[p] \in {"ensure", "xl_ensure"}
    /\ \/ /\ logExists' = TRUE
          /\ logRows' = <<>>
          /\ IF pc[p] = "ensure"
             THEN /\ pc' = [pc EXCEPT ![p] = "read"]
                  /\ UNCHANGED <<res, steps, body, payload, buffer, logAtCall,
                                 overlap>>
             ELSE Resume(p, "excel", TRUE, payload[p], buffer[p])
       \/ /\ Resume(p, IF pc[p] = "ensure" THEN "append" ELSE "excel", FALSE,
                    payload[p], buffer[p])
          /\ UNCHANGED <<logExists, logRows>>
    /\ UNCHANGED <<outbox, now, nreq, route, wb, ts, mailAttempts, fsName,
                   fsSafe>>

\* await wb.xlsx.readFile, then the synchronous part up to the next await:
\* getWorksheet, const ts, the addRow calls
ReadFile(p) ==
    /\ pc[p] = "read"
    /\ \/ /\ logExists
          /\ Clock
          /\ ts' = [ts EXCEPT ![p] = FormatTs(now')]
          /\ wb' = [wb EXCEPT ![p] = logRows \o newRows(payload[p], FormatTs(now'))]
          /\ pc' = [pc EXCEPT ![p] = "write"]
          /\ UNCHANGED <<res, steps, body, payload, buffer, logAtCall, overlap>>
       \/ /\ Resume(p, "append", FALSE, payload[p], buffer[p])
          /\ UNCHANGED <<wb, ts, now>>
    /\ UNCHANGED <<logExists, logRows, outbox, nreq, route, mailAttempts,
                   fsName, fsSafe>>

\* a write that would add the request's rows to the file as it is now
WriteFile_Merge(p) ==
    /\ pc[p] = "write"
    /\ \/ /\ logExists' = TRUE
          /\ logRows' = logRows \o newRows(payload[p], ts[p])
          /\ Resume(p, "append", TRUE, payload[p], buffer[p])
       \/ /\ Resume(p, "append", FALSE, payload[p], buffer[p])
          /\ UNCHANGED <<logExists, logRows>>
    /\ wb' = [wb EXCEPT ![p] = <<>>]
    /\ ts' = [ts EXCEPT ![p] = <<>>]
    /\ UNCHANGED <<outbox, now, nreq, route, mailAttempts, fsName, fsSafe>>

\* await wb.xlsx.writeFile(EXCEL_PATH): the file becomes the workbook, or the
\* write is rejected and the file stays as it was; wb and ts go out of scope
\* as appendToExcel returns or throws
WriteFile(p) ==
    /\ pc[p] = "write"
    /\ \/ /\ logExists' = TRUE
          /\ logRows' = wb[p]
          /\ Resume(p, "append", TRUE, payload[p], buffer[p])
       \/ /\ Resume(p, "append", FALSE, payload[p], buffer[p])
          /\ UNCHANGED <<logExists, logRows>>
    /\ wb' = [wb EXCEPT ![p] = <<>>]
    /\ ts' = [ts EXCEPT ![p] = <<>>]
    /\ UNCHANGED <<outbox, now, nreq, route, mailAttempts, fsName, fsSafe>>

\* const buffer = await buildDocx(payload)
BuildDocx(p) ==
    /\ pc[p] = "build"
    /\ \/ Resume(p, "build", TRUE, payload[p], buildDocx(payload[p]))
       \/ Resume(p, "build", FALSE, payload[p], buffer[p])
    /\ UNCHANGED <<logExists, logRows, outbox, now, nreq, route, wb, ts,
                   mailAttempts, fsName, fsSafe>>

\* await emailDocx(payload, buffer): one transporter.sendMail call
EmailDocx(p) ==
    /\ pc[p] = "email"
    /\ mailAttempts' = [mailAttempts EXCEPT ![p] = @ + 1]
    /\ \/ /\ outbox' = Append(outbox, mailMessage(payload[p], buffer[p]))
          /\ Resume(p, "email", TRUE, payload[p], buffer[p])
       \/ /\ Resume(p, "email", FALSE, payload[p], buffer[p])
          /\ UNCHANGED outbox
    /\ UNCHANGED <<logExists, logRows, now, nreq, route, wb, ts, fsName,
                   fsSafe>>

Next ==
    \/ \E p \in Procs : Submit(p)
    \/ \E p \in Procs : DownloadDocx(p)
    \/ \E p \in Procs : DownloadExcel(p)
    \/ \E p \in Procs : EnsureWorkbook(p)
    \/ \E p \in Procs : ReadFile(p)
    \/ \E p \in Procs : WriteFile(p)
    \/ \E p \in Procs : BuildDocx(p)
    \/ \E p \in Procs : EmailDocx(p)

Spec == Init /\ [][Next]_vars

(***************************************************************************)
(* fileSafe on its own, over every short string of the alphabet below.     *)
(***************************************************************************)
NameChars == {"a", "_", " ", "\t", "/", "\n"}

Names == UNION {[1..n -> NameChars] : n \in 0..MaxNameLen}

CallFileSafe ==
    /\ \E s \in Names :
          /\ fsName' = s
          /\ fsSafe' = fileSafe(s)
    /\ UNCHANGED <<logExists, logRows, outbox, now, nreq>>
    /\ UNCHANGED reqVars

SpecFileSafe == Init /\ [][CallFileSafe]_vars

(***************************************************************************)
(* Vocabulary of the properties.                                           *)
(***************************************************************************)
\* request p has just ended `step` with outcome ok in this transition
Ends(p, step, ok) ==
    /\ pc[p] \notin {"idle", "done"}
    /\ steps'[p] = Append(steps[p], [step |-> step, ok |-> ok])

\* `step` is among the statements request p has completed successfully
Ran(p, step) == \E i \in 1..Len(steps[p]) : steps[p][i] = [step |-> step, ok |-> TRUE]

\* the last statement request p ended, ended in the catch
Threw(p) == steps[p] # <<>> /\ ~steps[p][Len(steps[p])].ok

OkTrue == [status |-> 200, ok |-> TRUE]

OkFalse == [status |-> 500, ok |-> FALSE]

\* row carries exactly the submission-level fields of pl
CarriesSubmission(row, pl) ==
    /\ row.date = S(pl.date)
    /\ row.city = S(pl.city)
    /\ row.club = S(pl.club)
    /\ row.contacts = S(pl.contacts)
    /\ row.coach = S(pl.coach)
    /\ row.judge = S(pl.judge)
    /\ row.judgeCategory = S(pl.judgeCategory)

\* row carries exactly the fields of participant part
CarriesParticipant(row, part) ==
    /\ row.p_idx = N(part.idx)
    /\ row.p_name = S(part.name)
    /\ row.p_birth = S(part.birthYear)
    /\ row.p_has = S(part.hasRank)
    /\ row.p_perf = S(part.performingRank)
    /\ row.p_med = S(part.medicalVisa)

\* log is base followed by n more rows, base untouched
GainsRows(log, base, n) ==
    /\ Len(log) = Len(base) + n
    /\ \A i \in 1..Len(base) : log[i] = base[i]

C4_StepOrder ==
    \A p \in Procs :
        route[p] = "/submit"
        => LET order == <<"sanitize", "append", "build", "email">>
               ran == steps[p]
           IN  /\ Len(ran) <= 4
               /\ \A i \in 1..Len(ran) :
                     /\ ran[i].step = order[i]
                     /\ i < Len(ran) => ran[i].ok
               /\ pc[p] \in {"ensure", "read", "write"} => Len(ran) = 1
               /\ pc[p] = "build" => Len(ran) = 2
               /\ pc[p] = "email" => Len(ran) = 3
               /\ pc[p] \in {"idle", "done", "ensure", "read", "write", "build",
                             "email"}
               /\ Threw(p) => pc[p] = "done" /\ res[p] = OkFalse
               /\ (pc[p] = "done" /\ ~Threw(p)) => Len(ran) = 4
               /\ (mailAttempts[p] > 0) => Len(ran) = 4
               /\ (wb[p] # <<>>) => pc[p] = "write"

\* a /submit request whose render failed after its append succeeded: it has
\* ended, and no dispatch was run
C4_Witness ==
    \E p \in Procs :
        /\ route[p] = "/submit"
        /\ pc[p] = "done"
        /\ Len(steps[p]) = 3
        /\ steps[p][2] = [step |-> "append", ok |-> TRUE]
        /\ steps[p][3] = [step |-> "build", ok |-> FALSE]
        /\ mailAttempts[p] = 0

(***************************************************************************)
(* C5: POST /submit never reports partial success.  It answers ok:true     *)
(* only when append, render and dispatch all succeeded; when the append    *)
(* succeeded and render or dispatch then fails it answers ok:false, and    *)
(* the failing step leaves the log as it was (no rollback): the rows of an *)
(* append that nothing overlapped are still in it.                         *)
(***************************************************************************)
C5_NoPartialSuccess ==
    /\ [](\A p \in Procs :
            route[p] = "/submit"
            => /\ res[p] = OkTrue
                  => Ran(p, "append") /\ Ran(p, "build") /\ Ran(p, "email")
               /\ res[p].status \in {0, 200, 500}
               /\ (res[p].status = 200) => res[p] = OkTrue
               /\ (Ran(p, "append") /\ Threw(p)) => res[p] = OkFalse)
    /\ [][\A p \in Procs :
            (/\ route[p] = "/submit"
             /\ Ends(p, "build", FALSE) \/ Ends(p, "email", FALSE))
            => /\ res'[p] = OkFalse
               /\ logExists' = logExists
               /\ logRows' = logRows
               /\ ~overlap[p]
                  => LET pl == payload[p]
                         n == IF pl.participants = <<>> THEN 1
                              ELSE Len(pl.participants)
                         base == Len(logAtCall[p])
                     IN  /\ Len(logRows') >= base + n
                         /\ \A k \in 1..n :
                               /\ CarriesSubmission(logRows'[base + k], pl)
                               /\ pl.participants # <<>>
                                  => CarriesParticipant(logRows'[base + k],
                                                        pl.participants[k])]_vars

\* a /submit request answered ok:false after its dispatch failed, and the log
\* holds rows
C5_Witness ==
    \E p \in Procs :
        /\ route[p] = "/submit"
        /\ res[p] = OkFalse
        /\ Ran(p, "append")
        /\ steps[p][Len(steps[p])] = [step |-> "email", ok |-> FALSE]
        /\ Len(logRows) >= 1

(***************************************************************************)
(* C6: sanitizeSubmission never fails: for every input object, also one    *)
(* whose participants array holds null, it returns a Submission and raises *)
(* no error.                                                               *)
(***************************************************************************)
C6_NormalizerNeverFails ==
    \A p \in Procs :
        \A i \in 1..Len(steps[p]) : steps[p][i].step = "sanitize" => steps[p][i].ok

(***************************************************************************)
(* C7: every POST /submit request makes at most one mail delivery attempt, *)
(* with no retry after a failure; a request answered ok:true has made      *)
(* exactly one, after its rows were written to the log; a request that     *)
(* fails in normalize, append or render makes none.                        *)
(***************************************************************************)
C7_AtMostOneDelivery ==
    /\ [](\A p \in Procs :
            /\ mailAttempts[p] <= 1
            /\ (route[p] = "/submit" /\ res[p] = OkTrue)
               => mailAttempts[p] = 1 /\ Ran(p, "append")
            /\ (Threw(p) /\ steps[p][Len(steps[p])].step # "email")
               => mailAttempts[p] = 0
            /\ (Threw(p) /\ steps[p][Len(steps[p])].step = "email")
               => mailAttempts[p] = 1 /\ pc[p] = "done"
            /\ Len(outbox) <= nreq)
    /\ [][\A p \in Procs :
            (mailAttempts'[p] > mailAttempts[p])
            => /\ route[p] = "/submit"
               /\ Ran(p, "append")
               /\ steps[p][Len(steps[p])] = [step |-> "build", ok |-> TRUE]
               /\ Len(outbox') <= Len(outbox) + 1]_vars

\* a /submit request answered ok:true: its one mail is in the outbox
C7_Witness ==
    \E p \in Procs :
        /\ route[p] = "/submit"
        /\ res[p] = OkTrue
        /\ mailAttempts[p] = 1
        /\ Len(outbox) >= 1
        /\ Len(logRows) >= 1

(***************************************************************************)
(* C8: POST /download-docx leaves the roster log and the outbound mail     *)
(* unchanged: whatever the payload, and whether it succeeds or fails, no   *)
(* step of it appends a row, creates or rewrites the log file, or sends a  *)
(* mail; it returns the rendered document.                                 *)
(***************************************************************************)
C8_DownloadDocxFrame ==
    /\ [](\A p \in Procs :
            route[p] = "/download-docx"
            => /\ mailAttempts[p] = 0
               /\ pc[p] \in {"build", "done"}
               /\ (pc[p] = "done" /\ ~Threw(p))
                  => res[p].status = 200 /\ Len(res[p].content.rows) >= 1)
    /\ [][\A p \in Procs :
            (\/ DownloadDocx(p)
             \/ /\ route[p] = "/download-docx"
                /\ \/ EnsureWorkbook(p) \/ ReadFile(p) \/ WriteFile(p)
                   \/ BuildDocx(p) \/ EmailDocx(p))
            => UNCHANGED <<logExists, logRows, outbox>>]_vars

\* a /download-docx request has returned its document while another request
\* had put rows into the log
C8_Witness ==
    \E p \in Procs :
        /\ route[p] = "/download-docx"
        /\ pc[p] = "done"
        /\ res[p].status = 200
        /\ Len(res[p].content.rows) = 2
        /\ Len(logRows) >= 1

(***************************************************************************)
(* C9: besides its header row the participant table of the rendered        *)
(* document has exactly N body rows, in sequence order, for a submission   *)
(* with N >= 1 participants, and exactly 8 body rows numbered 1..8 with    *)
(* the five other cells empty for one with none; a participant field the   *)
(* input lacks renders as the empty string.                                *)
(***************************************************************************)
C9_ParticipantTableRows ==
    [][\A p \in Procs :
          (pc[p] = "build" /\ Ends(p, "build", TRUE))
          => LET doc == IF route[p] = "/download-docx"
                        THEN res'[p].content ELSE buffer'[p]
                 parts == payload[p].participants
                 n == Len(parts)
             IN  IF n >= 1
                 THEN /\ Len(doc.rows) = n
                      /\ \A k \in 1..n :
                            /\ doc.rows[k] =
                                 <<NumToStr(k), parts[k].name, parts[k].birthYear,
                                   parts[k].hasRank, parts[k].performingRank,
                                   parts[k].medicalVisa>>
                            /\ \A f \in {"name", "birthYear", "hasRank",
                                         "performingRank", "medicalVisa"} :
                                  Get(body[p].participants.a[k], f) \in {Undef, Null}
                                  => parts[k][f] = <<>>
                 ELSE /\ Len(doc.rows) = 8
                      /\ \A k \in 1..8 :
                            doc.rows[k] = <<NumToStr(k), <<>>, <<>>, <<>>, <<>>, <<>>>>]_vars

\* the document of a submission without participants is built: 8 body rows
C9_Witness ==
    \E p \in Procs :
        /\ pc[p] = "email"
        /\ payload[p].participants = <<>>
        /\ Len(buffer[p].rows) = 8
        /\ buffer[p].rows[8][1] = <<"8">>

C11_OverlappingAppendLosesRows ==
    [][\A p \in Procs : \A q \in Procs \ {p} :
          LET base == logAtCall[p]
              mine == newRows(payload[p], ts[p])
          IN  (/\ route[p] = "/submit" /\ route[q] = "/submit"
               /\ pc[p] = "write"
               /\ Ends(p, "append", TRUE)
               /\ pc[q] \in {"build", "email"}
               /\ Ran(q, "append")
               /\ logAtCall[q] = base
               /\ wb[p] = base \o mine
               /\ Len(logRows) > Len(base)
               /\ \A i \in 1..Len(logRows) :
                     i > Len(base) => CarriesSubmission(logRows[i], payload[q]))
              => /\ logRows' = base \o mine
                 /\ Len(logRows') < Len(logRows) + Len(mine)
                 /\ payload[q] # payload[p]
                    => \A i \in 1..Len(logRows') :
                          i > Len(base)
                          => ~CarriesSubmission(logRows'[i], payload[q])]_vars

\* two /submit requests with different submissions have both completed
\* appendToExcel without error, their calls overlapped, and the log holds the
\* rows of one of them only
C11_Witness ==
    \E p \in Procs : \E q \in Procs \ {p} :
        /\ route[p] = "/submit" /\ route[q] = "/submit"
        /\ pc[p] = "build" /\ pc[q] \in {"build", "email"}
        /\ steps[p][Len(steps[p])] = [step |-> "append", ok |-> TRUE]
        /\ Ran(q, "append")
        /\ overlap[p] /\ overlap[q]
        /\ logAtCall[p] = logAtCall[q]
        /\ payload[p].club # payload[q].club
        /\ Len(payload[p].participants) = 2
        /\ Len(logRows) = Len(logAtCall[p]) + 2
        /\ \A i \in 1..Len(logRows) :
              i > Len(logAtCall[p])
              => /\ CarriesSubmission(logRows[i], payload[p])
                 /\ ~CarriesSubmission(logRows[i], payload[q])

(***************************************************************************)
(* C12: ensureWorkbook takes effect only when the log does not exist, and  *)
(* then creates it with zero data rows; whenever a log already exists, an  *)
(* ensureWorkbook run for appendToExcel or for GET /download-excel leaves  *)
(* the existing data rows unchanged, so no row a completed append          *)
(* persisted is removed by it.                                             *)
(***************************************************************************)
C12_EnsureWorkbookKeepsRows ==
    [][\A p \in Procs :
          (/\ pc[p] \in {"ensure", "xl_ensure"}
           /\ pc'[p] # pc[p])
          => IF logExists
             THEN logExists' /\ logRows' = logRows
             ELSE \/ logExists' /\ logRows' = <<>>
                  \/ ~logExists' /\ logRows' = logRows]_vars

====
